---- MODULE Spec2Model ----
(***************************************************************************)
(* Model of python/src/lib.rs: the pyo3 extension module _rbpy.             *)
(*                                                                         *)
(* The module initialiser _rbpy runs three fallible framework calls, each   *)
(* followed by the ? operator:                                             *)
(*     line 14   wrap_pyfunction!(rb_function, m)?                         *)
(*     line 14   m.add_function(..)?                                       *)
(*     line 15   m.add_class::<RBStruct>()?                                *)
(*     line 16   Ok(())                                                    *)
(* After a successful import host threads may call rb_function, whose body *)
(* is empty.                                                               *)
(***************************************************************************)
EXTENDS Naturals, Sequences, FiniteSets

\* ---- bounds of the model ----
NumThreads == 3
MaxCalls == 2
NumErrors == 2

Threads == 1..NumThreads
\* The errors a framework call may produce (PyErr values), kept abstract.
Errors == 1..NumErrors

VARIABLES
    pc,         \* position of _rbpy: "wrap", "add_function", "add_class", "ret", "done"
    wrapped,    \* the value of wrap_pyfunction!(rb_function, m), once computed
    module,     \* attributes registered in m, in registration order
    result,     \* the PyResult<()> returned by _rbpy
    trace,      \* the framework calls _rbpy has made, each with its outcome
    tpc,        \* per host thread: "idle" or "in_call" (inside rb_function)
    ncalls,     \* per host thread: completed calls of rb_function
    ret,        \* per host thread: value returned by its last call
    before      \* per host thread: the shared state when its last call began

vars == <<pc, wrapped, module, result, trace, tpc, ncalls, ret, before>>

\* ---- the declared items ----

\* #[pyfunction] fn rb_function() {}  -- a callable named rb_function
RbFunctionObject == [name |-> "rb_function", kind |-> "callable"]

\* #[pyclass] struct RBStruct {}  -- a type named RBStruct
RBStructObject == [name |-> "RBStruct", kind |-> "type"]

NoValue == [name |-> "none", kind |-> "none"]

\* The outcome of a call that succeeded: no PyErr.
NoError == 0

\* PyResult<()>
Pending == [kind |-> "Pending", err |-> NoError]
Ok == [kind |-> "Ok", err |-> NoError]
Err(e) == [kind |-> "Err", err |-> e]

\* The state threads could share: everything the extension owns.
Shared == <<module, result, pc, wrapped>>

\* One framework call with its outcome, NoError or the error it produced.
Call(c, o) == [call |-> c, outcome |-> o]

Init ==
    /\ pc = "wrap"
    /\ wrapped = NoValue
    /\ module = <<>>
    /\ result = Pending
    /\ trace = <<>>
    /\ tpc = [t \in Threads |-> "idle"]
    /\ ncalls = [t \in Threads |-> 0]
    /\ ret = [t \in Threads |-> "unset"]
    /\ before = [t \in Threads |-> <<>>]

\* ---- _rbpy ----

\* line 14, inner expression: wrap_pyfunction!(rb_function, m)?
WrapPyfunction ==
    /\ pc = "wrap"
    /\ \/ /\ trace' = Append(trace, Call("wrap_pyfunction", NoError))
          /\ wrapped' = RbFunctionObject
          /\ pc' = "add_function"
          /\ UNCHANGED result
       \/ \E e \in Errors :
          /\ trace' = Append(trace, Call("wrap_pyfunction", e))
          /\ result' = Err(e)
          /\ pc' = "done"
          /\ UNCHANGED wrapped
    /\ UNCHANGED <<module, tpc, ncalls, ret, before>>

\* A bug: a failure of add_function is ignored and initialisation goes on.
AddFunctionNoShortCircuit ==
    /\ pc = "add_function"
    /\ \/ /\ trace' = Append(trace, Call("add_function", NoError))
          /\ module' = Append(module, wrapped)
       \/ \E e \in Errors :
          /\ trace' = Append(trace, Call("add_function", e))
          /\ UNCHANGED module
    /\ pc' = "add_class"
    /\ UNCHANGED <<result, wrapped, tpc, ncalls, ret, before>>

\* line 14, outer expression: m.add_function(..)?
AddFunction ==
    /\ pc = "add_function"
    /\ \/ /\ trace' = Append(trace, Call("add_function", NoError))
          /\ module' = Append(module, wrapped)
          /\ pc' = "add_class"
          /\ UNCHANGED result
       \/ \E e \in Errors :
          /\ trace' = Append(trace, Call("add_function", e))
          /\ result' = Err(e)
          /\ pc' = "done"
          /\ UNCHANGED module
    /\ UNCHANGED <<wrapped, tpc, ncalls, ret, before>>

\* A bug: add_class reports success without registering the type.
AddClassNotRegistered ==
    /\ pc = "add_class"
    /\ \/ /\ trace' = Append(trace, Call("add_class", NoError))
          /\ pc' = "ret"
          /\ UNCHANGED <<result, module>>
       \/ \E e \in Errors :
          /\ trace' = Append(trace, Call("add_class", e))
          /\ result' = Err(e)
          /\ pc' = "done"
          /\ UNCHANGED module
    /\ UNCHANGED <<wrapped, tpc, ncalls, ret, before>>

\* A bug: the error of add_class is dropped (no ? on line 15).
AddClassSwallow ==
    /\ pc = "add_class"
    /\ \/ /\ trace' = Append(trace, Call("add_class", NoError))
          /\ module' = Append(module, RBStructObject)
       \/ \E e \in Errors :
          /\ trace' = Append(trace, Call("add_class", e))
          /\ UNCHANGED module
    /\ pc' = "ret"
    /\ UNCHANGED <<result, wrapped, tpc, ncalls, ret, before>>

\* A bug: a failure of add_class rolls the module back.
AddClassRollback ==
    /\ pc = "add_class"
    /\ \/ /\ trace' = Append(trace, Call("add_class", NoError))
          /\ module' = Append(module, RBStructObject)
          /\ pc' = "ret"
          /\ UNCHANGED result
       \/ \E e \in Errors :
          /\ trace' = Append(trace, Call("add_class", e))
          /\ result' = Err(e)
          /\ pc' = "done"
          /\ module' = <<>>
    /\ UNCHANGED <<wrapped, tpc, ncalls, ret, before>>

\* A bug: a failed add_class is tried once more before giving up.
AddClassRetry ==
    /\ pc = "add_class"
    /\ \/ /\ trace' = Append(trace, Call("add_class", NoError))
          /\ module' = Append(module, RBStructObject)
          /\ pc' = "ret"
          /\ UNCHANGED result
       \/ \E e \in Errors :
          /\ trace' = Append(trace, Call("add_class", e))
          /\ IF \E i \in 1..Len(trace) : trace[i].call = "add_class"
               THEN result' = Err(e) /\ pc' = "done"
               ELSE UNCHANGED <<result, pc>>
          /\ UNCHANGED module
    /\ UNCHANGED <<wrapped, tpc, ncalls, ret, before>>

\* line 15: m.add_class::<RBStruct>()?
AddClass ==
    /\ pc = "add_class"
    /\ \/ /\ trace' = Append(trace, Call("add_class", NoError))
          /\ module' = Append(module, RBStructObject)
          /\ pc' = "ret"
          /\ UNCHANGED result
       \/ \E e \in Errors :
          /\ trace' = Append(trace, Call("add_class", e))
          /\ result' = Err(e)
          /\ pc' = "done"
          /\ UNCHANGED module
    /\ UNCHANGED <<wrapped, tpc, ncalls, ret, before>>

\* line 16: Ok(())
ReturnOk ==
    /\ pc = "ret"
    /\ result' = Ok
    /\ pc' = "done"
    /\ UNCHANGED <<wrapped, module, trace, tpc, ncalls, ret, before>>

\* ---- host threads calling rb_function ----

\* A host thread that imported the module enters rb_function (no arguments).
CallRbFunction(t) ==
    /\ pc = "done"
    /\ result = Ok
    /\ tpc[t] = "idle"
    /\ ncalls[t] < MaxCalls
    /\ tpc' = [tpc EXCEPT ![t] = "in_call"]
    /\ before' = [before EXCEPT ![t] = Shared]
    /\ UNCHANGED <<pc, wrapped, module, result, trace, ncalls, ret>>

\* A bug: the body clears the module it belongs to.
rb_function_clears(t) ==
    /\ tpc[t] = "in_call"
    /\ tpc' = [tpc EXCEPT ![t] = "idle"]
    /\ ncalls' = [ncalls EXCEPT ![t] = @ + 1]
    /\ ret' = [ret EXCEPT ![t] = "None"]
    /\ module' = <<>>
    /\ UNCHANGED <<pc, wrapped, result, trace, before>>

\* A bug: the body waits until no other thread is inside it.
rb_function_exclusive(t) ==
    /\ tpc[t] = "in_call"
    /\ \A u \in Threads \ {t} : tpc[u] = "idle"
    /\ tpc' = [tpc EXCEPT ![t] = "idle"]
    /\ ncalls' = [ncalls EXCEPT ![t] = @ + 1]
    /\ ret' = [ret EXCEPT ![t] = "None"]
    /\ UNCHANGED <<pc, wrapped, module, result, trace, before>>

\* lines 3-4: fn rb_function() {}  -- the empty body runs and () is returned,
\* which the host sees as None.
rb_function(t) ==
    /\ tpc[t] = "in_call"
    /\ tpc' = [tpc EXCEPT ![t] = "idle"]
    /\ ncalls' = [ncalls EXCEPT ![t] = @ + 1]
    /\ ret' = [ret EXCEPT ![t] = "None"]
    /\ UNCHANGED <<pc, wrapped, module, result, trace, before>>

_rbpy == WrapPyfunction \/ AddFunction \/ AddClass \/ ReturnOk

Next ==
    \/ WrapPyfunction
    \/ AddFunction
    \/ AddClass
    \/ ReturnOk
    \/ \E t \in Threads : CallRbFunction(t)
    \/ \E t \in Threads : rb_function(t)

Spec == Init /\ [][Next]_vars

\* The initialiser is straight-line code run by the importing thread: once
\* started it keeps running.
FairSpec == Spec /\ WF_vars(_rbpy)

\* ---- helpers used to state the properties ----

Failed == {i \in 1..Len(trace) : trace[i].outcome # NoError}

Succeeded(c) == \E i \in 1..Len(trace) : trace[i] = Call(c, NoError)

Attempted(c) == \E i \in 1..Len(trace) : trace[i].call = c

\* Registration calls made on the module (add_function, add_class).
RegistrationSteps ==
    Cardinality({i \in 1..Len(trace) : trace[i].call \in {"add_function", "add_class"}})

\* ---- C1 ----
\* C1: whenever _rbpy has returned Ok, the module holds exactly two symbols:
\* rb_function registered as a callable and RBStruct registered as a type.
C1_OkRegistersExactlyBoth ==
    result = Ok =>
        /\ Len(module) = 2
        /\ {module[i] : i \in 1..Len(module)} = {RbFunctionObject, RBStructObject}

C1_Witness == result = Ok /\ pc = "done" /\ Len(module) = 2

\* ---- C2 ----
\* C2: every step of a call of rb_function (entering it with no arguments, and
\* running its body) leaves the module, the init result and the rest of the
\* extension's state unchanged; the call returns None and no error, however
\* many calls were made before.
C2_RbFunctionNoEffect ==
    [][\A t \in Threads :
          tpc'[t] # tpc[t] =>
              /\ Shared' = Shared
              /\ trace' = trace
              /\ (tpc'[t] = "idle" => ret'[t] = "None" /\ ncalls'[t] = ncalls[t] + 1)]_vars

C2_Witness == \E t \in Threads : ncalls[t] = MaxCalls /\ ret[t] = "None" /\ tpc[t] = "idle"

\* ---- C3 ----
\* C3: when _rbpy has returned, it returned Err iff one of its framework calls
\* failed, the error returned is the one that failing call (the last call
\* made) produced, and it returned Ok iff wrapping, add_function and
\* add_class all succeeded.
C3_ErrorPropagation ==
    pc = "done" =>
        /\ result.kind \in {"Ok", "Err"}
        /\ (result.kind = "Err" <=> Failed # {})
        /\ (result.kind = "Err" =>
               /\ Failed = {Len(trace)}
               /\ result = Err(trace[Len(trace)].outcome)
               /\ result.err \in Errors)
        /\ (result = Ok <=>
               /\ Succeeded("wrap_pyfunction")
               /\ Succeeded("add_function")
               /\ Succeeded("add_class"))

C3_Witness == pc = "done" /\ result.kind = "Err" /\ Failed # {}

\* ---- C5 ----
\* C5: with several threads inside or between calls of rb_function after a
\* successful init, a thread inside the function can always complete it (it
\* never blocks), and the shared state is what it was when each call began.
C5_CallsDoNotInterfere ==
    \A t \in Threads :
        /\ (tpc[t] = "in_call" => ENABLED rb_function(t))
        /\ (tpc[t] = "in_call" \/ ncalls[t] > 0 => Shared = before[t] /\ result = Ok)

C5_Witness ==
    \E t, u \in Threads :
        /\ t # u
        /\ tpc[t] = "in_call"
        /\ tpc[u] = "in_call"
        /\ \E v \in Threads : ncalls[v] > 0

\* ---- C6 ----
\* C6: rb_function is registered strictly before RBStruct; if wrapping or
\* adding rb_function fails, add_class is never attempted and the module holds
\* neither symbol; RBStruct is never in a module that lacks rb_function.
C6_OrderAndShortCircuit ==
    /\ \A i \in 1..Len(module) :
          module[i].name = "RBStruct" =>
              \E j \in 1..(i - 1) : module[j].name = "rb_function"
    /\ \A i \in 1..Len(trace) :
          trace[i].call = "add_class" =>
              \E j \in 1..(i - 1) : trace[j] = Call("add_function", NoError)
    /\ (\E i \in Failed : trace[i].call \in {"wrap_pyfunction", "add_function"}) =>
          /\ ~Attempted("add_class")
          /\ module = <<>>
          /\ pc = "done"

C6_Witness ==
    /\ pc = "done"
    /\ \E i \in Failed : trace[i].call = "add_function"

\* ---- C7 ----
\* C7: if add_function succeeded and add_class then failed, _rbpy returns that
\* error while rb_function is still registered in the module.
C7_NoRollback ==
    (Succeeded("add_function") /\ \E i \in Failed : trace[i].call = "add_class") =>
        /\ result.kind = "Err"
        /\ pc = "done"
        /\ module = <<RbFunctionObject>>

C7_Witness ==
    /\ result.kind = "Err"
    /\ pc = "done"
    /\ module # <<>>
    /\ \E i \in Failed : trace[i].call = "add_class"

\* ---- C8 ----
\* C8: _rbpy always reaches its final Ok or Err result, and on the way makes at
\* most two registration calls (three framework calls, none repeated).
C8_Terminates ==
    /\ <>(pc = "done" /\ result.kind \in {"Ok", "Err"})
    /\ [](RegistrationSteps <= 2 /\ Len(trace) <= 3)
    /\ [][pc = "done" => pc' = "done" /\ result' = result]_vars

C8_Witness == pc = "done" /\ RegistrationSteps = 2 /\ Len(trace) = 3

====
